---- MODULE Spec2Model ----
(***************************************************************************)
(* A model of the task service: the in-memory TaskStore                    *)
(* (internal/store/task-store.go), the per-client RateLimiter and the      *)
(* middleware chain (internal/middleware), and the task handlers            *)
(* (internal/handlers) wired together by cmd/api/main.go.                  *)
(***************************************************************************)
EXTENDS Integers, Sequences, FiniteSets, TLC

(***************************************************************************)
(* Bounds of the model.                                                    *)
(***************************************************************************)
\* Create is not called once nextID has passed MaxID
MaxID == 2

\* NewRateLimiter's requestsPerMinute: the capacity of a visitor's bucket
RequestsPerMinute == 2
\* clock ticks per minute: the resolution of the model's clock
Minute == 1
\* cleanup: 5 * time.Minute
Cleanup == 5 * Minute

\* requests the server accepts in a run
MaxRequests == 3

\* the goroutines: each serves one call or request at a time
Callers == {1, 2}
\* r.RemoteAddr
IPs == {"ip1"}
\* a title is the sequence of its characters
Titles == {<<"a">>, <<"b">>}
\* ids passed to GetByID, Update and Delete: every id Create can return
\* (assigned, not assigned yet, or deleted) and 0, which is never assigned
IdArgs == 0..MaxID

VARIABLES
    \* ---- TaskStore (task-store.go:15-19) ----
    mu,         \* sync.RWMutex: the goroutine holding Lock, or 0
    tasks,      \* map[int]*models.Task: id -> address in objs
    nextID,     \* int
    objs,       \* the models.Task objects allocated by Create, by address
    \* ---- the goroutines calling the store ----
    pc,         \* caller -> position
    arg,        \* caller -> arguments of the call in progress
    task,       \* caller -> local variable `task` of Create (an address, 0 = unset)
    res,        \* caller -> value the last call returned
    \* ---- RateLimiter (package middleware, lines 79-90) and the clock ----
    rlmu,       \* rl.mu: the goroutine holding it, or 0
    visitors,   \* map[string]*visitor: ip -> address in vobjs
    vobjs,      \* the visitor objects allocated by getVisitor and still referenced, by address
    ticker,     \* time.NewTicker(rl.cleanup): [since |-> ticks since it last fired, ready |-> a tick waits in ticker.C]
    v,          \* caller -> local variable v of allow (an address, 0 = unset)
    ok,         \* caller -> what allow returned
    \* ---- history, written by the store's operations, read by no operation ----
    snap,       \* caller -> the tasks as they were when res was returned
    createLog,  \* the IDs returned by Create, in the order of return
    afterDelete,\* a Create has returned after a successful Delete
    titleArg,   \* id -> title passed to the Create that returned it
    lastUpd,    \* id -> done passed to the last successful Update of it
    deleted,    \* ids removed by a successful Delete
    evicted,    \* the identities a sweep has removed from the map
    win,        \* visitor address -> its current window: ticks since it started, and calls decided in it
    \* ---- the request each goroutine serves (package middleware, router, handlers) ----
    requestIDCounter,   \* var requestIDCounter int
    requestIDMu,        \* var requestIDMu sync.Mutex: the goroutine holding it, or 0
    rd,         \* caller -> the value requestIDCounter++ has read and not yet written back
    req,        \* caller -> the *http.Request, NoReq when it serves none
    at,         \* caller -> how deep in the handler chain it is (0 = not in it)
    ctx,        \* caller -> Value(RequestIDKey) of the request passed to the current stage
    logctx,     \* caller -> Value(RequestIDKey) of the request Logger was given
    hdr,        \* caller -> the X-Request-ID header set on the ResponseWriter
    resp,       \* caller -> the response: [written, status, xRequestID as sent]
    logged,     \* caller -> the line Logger printed for the request
    \* ---- history ----
    arrived,    \* number of requests accepted
    issued,     \* the request IDs RequestID has generated, in the order of generation
    trail       \* caller -> the stages its request has entered, in order

storeVars == <<mu, tasks, nextID, objs>>
callVars  == <<pc, arg, task, res>>
histVars  == <<snap, createLog, afterDelete, titleArg, lastUpd, deleted>>
limVars == <<rlmu, visitors, vobjs, ticker, v, ok, win, evicted>>
pipeVars == <<requestIDCounter, requestIDMu, rd, issued, req, at, ctx, logctx, hdr, resp, logged, arrived, trail>>
vars == <<storeVars, callVars, histVars, limVars, pipeVars>>

ErrNil == "nil"
ErrTaskNotFound == "task not found"

NoTask == [ID |-> 0, Title |-> <<>>, Done |-> FALSE]
\* A *models.Task held by a caller: either the address of an object of the
\* store (addr > 0), or a private copy that no one else references (val).
NoRef == [addr |-> 0, val |-> NoTask]
NoArg == [op |-> "", id |-> 0, title |-> <<>>, done |-> FALSE]
NoRes == [err |-> ErrNil, task |-> NoRef, list |-> {}]

Pointer(a) == [addr |-> a, val |-> NoTask]
\* taskCopy := *task; return &taskCopy
Copy(a) == [addr |-> 0, val |-> objs[a]]
\* what a caller reads through a *models.Task it holds, in the heap o
DerefIn(o, r) == IF r.addr # 0 THEN o[r.addr] ELSE r.val
Deref(r) == DerefIn(objs, r)
\* every task value a caller sees through a returned value r, in the heap o
Seen(o, r) ==
    (IF r.task = NoRef THEN {} ELSE {DerefIn(o, r.task)})
        \cup {DerefIn(o, x) : x \in r.list}

\* a context value or a header that is not set
Nil == <<>>
NoBody == [ok |-> TRUE, title |-> <<>>, done |-> FALSE]
NoReq == [method |-> "", path |-> "", key |-> "", remoteAddr |-> "",
          id |-> "", done |-> "", body |-> NoBody]
NoResp == [written |-> FALSE, status |-> 0, xRequestID |-> Nil, body |-> Nil]
NoLog == [wrapped |-> FALSE, printed |-> FALSE, status |-> 0, requestID |-> Nil]

\* the history functions with one entry written or removed
With(f, k, e) == [x \in DOMAIN f \cup {k} |-> IF x = k THEN e ELSE f[x]]
Without(f, k) == [x \in DOMAIN f \ {k} |-> f[x]]

\* NewTaskStore and NewRateLimiter; every goroutine is at position start
InitState(start) ==
    /\ mu = 0
    /\ tasks = <<>>
    /\ nextID = 1
    /\ objs = <<>>
    /\ pc = [c \in Callers |-> start]
    /\ arg = [c \in Callers |-> NoArg]
    /\ task = [c \in Callers |-> 0]
    /\ res = [c \in Callers |-> NoRes]
    /\ snap = [c \in Callers |-> {}]
    /\ createLog = <<>>
    /\ afterDelete = FALSE
    /\ titleArg = <<>>
    /\ lastUpd = <<>>
    /\ deleted = {}
    /\ rlmu = 0
    /\ evicted = {}
    /\ visitors = <<>>
    /\ vobjs = <<>>
    /\ ticker = [since |-> 0, ready |-> FALSE]
    /\ v = [c \in Callers |-> 0]
    /\ ok = [c \in Callers |-> FALSE]
    /\ win = <<>>
    /\ requestIDCounter = 0
    /\ requestIDMu = 0
    /\ rd = [c \in Callers |-> 0]
    /\ issued = <<>>
    /\ req = [c \in Callers |-> NoReq]
    /\ at = [c \in Callers |-> 0]
    /\ ctx = [c \in Callers |-> Nil]
    /\ logctx = [c \in Callers |-> Nil]
    /\ hdr = [c \in Callers |-> Nil]
    /\ resp = [c \in Callers |-> NoResp]
    /\ logged = [c \in Callers |-> NoLog]
    /\ arrived = 0
    /\ trail = [c \in Callers |-> <<>>]

\* the callers of the store are about to call one of its methods
InitStore == InitState("call")

(***************************************************************************)
(* sync.RWMutex.  GetByID, GetAll, GetByStatus (under RLock) and Update,   *)
(* Delete (under Lock) each read or write the store at one point, so each  *)
(* is one step that needs its lock to be free to take; Create writes       *)
(* s.tasks and s.nextID in two statements and is modelled statement by     *)
(* statement, holding the lock in between.  mu is the goroutine holding    *)
(* Lock, or 0.                                                             *)
(***************************************************************************)
\* Create without its s.mu.Lock()
CanLockUnguarded == TRUE
CanLock == mu = 0
CanRLock == mu = 0

\* m[k] = v on a Go map
MapSet(m, k, e) == [x \in DOMAIN m \cup {k} |-> IF x = k THEN e ELSE m[x]]
\* a Delete that finds the record and leaves it in the map
MapDeleteNothing(m, k) == m
\* delete(m, k) on a Go map
MapDelete(m, k) == [x \in DOMAIN m \ {k} |-> m[x]]

\* a goroutine enters a store method
Enter(c, to, a) ==
    /\ pc[c] = "call"
    /\ pc' = [pc EXCEPT ![c] = to]
    /\ arg' = [arg EXCEPT ![c] = a]

\* the method returns r to its caller; o is the heap it leaves
Return(c, r, o) ==
    /\ pc' = [pc EXCEPT ![c] = "ret"]
    /\ res' = [res EXCEPT ![c] = r]
    /\ snap' = [snap EXCEPT ![c] = Seen(o, r)]

(***************************************************************************)
(* TaskStore.Create (task-store.go:28-41)                                  *)
(***************************************************************************)
\* a Create that drops its argument
NewTaskUntitled(id, title) == [ID |-> id, Title |-> <<>>, Done |-> FALSE]
\* &models.Task{ID: ..., Title: title, Done: false}
NewTask(id, title) == [ID |-> id, Title |-> title, Done |-> FALSE]

\* a Create that numbers the new task by the size of the map
AllocIDByLen == Cardinality(DOMAIN tasks) + 1
\* the id Create gives the new task and stores it under: s.nextID
AllocID == nextID

\* s.mu.Lock()
CreateLock(c, title) ==
    /\ nextID <= MaxID
    /\ CanLock
    /\ Enter(c, "create", [NoArg EXCEPT !.op = "Create", !.title = title])
    /\ mu' = c
    /\ UNCHANGED <<tasks, nextID, objs, task, res, histVars>>
    /\ UNCHANGED <<limVars, pipeVars>>

\* task := &models.Task{...}; s.tasks[s.nextID] = task
CreateStore(c) ==
    /\ pc[c] = "create"
    /\ objs' = Append(objs, NewTask(AllocID, arg[c].title))
    /\ task' = [task EXCEPT ![c] = Len(objs) + 1]
    /\ tasks' = MapSet(tasks, AllocID, Len(objs) + 1)
    /\ pc' = [pc EXCEPT ![c] = "createInc"]
    /\ UNCHANGED <<mu, nextID, arg, res, histVars>>
    /\ UNCHANGED <<limVars, pipeVars>>

\* s.nextID++; return task (and the deferred s.mu.Unlock())
CreateReturn(c) ==
    /\ pc[c] = "createInc"
    /\ nextID' = nextID + 1
    /\ Return(c, [NoRes EXCEPT !.task = Pointer(task[c])], objs)
    /\ task' = [task EXCEPT ![c] = 0]
    /\ mu' = 0
    /\ createLog' = Append(createLog, objs[task[c]].ID)
    /\ afterDelete' = (afterDelete \/ deleted # {})
    /\ titleArg' = With(titleArg, objs[task[c]].ID, arg[c].title)
    /\ UNCHANGED <<tasks, objs, arg, lastUpd, deleted>>
    /\ UNCHANGED <<limVars, pipeVars>>

(***************************************************************************)
(* TaskStore.GetByID (task-store.go:43-54)                                 *)
(***************************************************************************)
\* task, exists := s.tasks[id]
Exists(id) == id \in DOMAIN tasks

GetByID(id) ==
    IF ~Exists(id)
    THEN [NoRes EXCEPT !.err = ErrTaskNotFound]
    ELSE [NoRes EXCEPT !.task = Copy(tasks[id])]

CallGetByID(c, id) ==
    /\ CanRLock
    /\ Enter(c, "ret", [NoArg EXCEPT !.op = "GetByID", !.id = id])
    /\ Return(c, GetByID(id), objs)
    /\ UNCHANGED <<storeVars, task, createLog, afterDelete, titleArg, lastUpd, deleted>>
    /\ UNCHANGED <<limVars, pipeVars>>

(***************************************************************************)
(* TaskStore.GetAll (task-store.go:56-67)                                  *)
(* The slice follows the map's iteration order, which Go leaves            *)
(* unspecified: the result is modelled as the set of its elements.         *)
(***************************************************************************)
GetAll == [NoRes EXCEPT !.list = {Copy(tasks[i]) : i \in DOMAIN tasks}]

CallGetAll(c) ==
    /\ CanRLock
    /\ Enter(c, "ret", [NoArg EXCEPT !.op = "GetAll"])
    /\ Return(c, GetAll, objs)
    /\ UNCHANGED <<storeVars, task, createLog, afterDelete, titleArg, lastUpd, deleted>>
    /\ UNCHANGED <<limVars, pipeVars>>

(***************************************************************************)
(* TaskStore.GetByStatus (task-store.go:69-82)                             *)
(***************************************************************************)
GetByStatus(done) ==
    [NoRes EXCEPT !.list =
        {Copy(tasks[i]) : i \in {j \in DOMAIN tasks : objs[tasks[j]].Done = done}}]

CallGetByStatus(c, done) ==
    /\ CanRLock
    /\ Enter(c, "ret", [NoArg EXCEPT !.op = "GetByStatus", !.done = done])
    /\ Return(c, GetByStatus(done), objs)
    /\ UNCHANGED <<storeVars, task, createLog, afterDelete, titleArg, lastUpd, deleted>>
    /\ UNCHANGED <<limVars, pipeVars>>

(***************************************************************************)
(* TaskStore.Update (task-store.go:84-95)                                  *)
(***************************************************************************)
\* an Update that marks the task done whatever it is given
SetDoneTrue(id, done) == [objs EXCEPT ![tasks[id]].Done = TRUE]
\* an Update that writes the flag to every task
SetDoneAll(id, done) == [a \in DOMAIN objs |-> [objs[a] EXCEPT !.Done = done]]
\* task.Done = done, on the object s.tasks[id] points to
SetDone(id, done) == [objs EXCEPT ![tasks[id]].Done = done]

CallUpdate(c, id, done) ==
    /\ CanLock
    /\ Enter(c, "ret", [NoArg EXCEPT !.op = "Update", !.id = id, !.done = done])
    /\ IF ~Exists(id)
       THEN /\ Return(c, [NoRes EXCEPT !.err = ErrTaskNotFound], objs)
            /\ UNCHANGED <<objs, lastUpd>>
       ELSE /\ objs' = SetDone(id, done)
            /\ Return(c, NoRes, objs')
            /\ lastUpd' = With(lastUpd, id, done)
    /\ UNCHANGED <<mu, tasks, nextID, task, createLog, afterDelete, titleArg, deleted>>
    /\ UNCHANGED <<limVars, pipeVars>>

(***************************************************************************)
(* TaskStore.Delete (task-store.go:97-107)                                 *)
(***************************************************************************)
CallDelete(c, id) ==
    /\ CanLock
    /\ Enter(c, "ret", [NoArg EXCEPT !.op = "Delete", !.id = id])
    /\ IF ~Exists(id)
       THEN /\ Return(c, [NoRes EXCEPT !.err = ErrTaskNotFound], objs)
            /\ UNCHANGED <<tasks, titleArg, lastUpd, deleted>>
       ELSE /\ tasks' = MapDelete(tasks, id)
            /\ Return(c, NoRes, objs)
            /\ titleArg' = Without(titleArg, id)
            /\ lastUpd' = Without(lastUpd, id)
            /\ deleted' = deleted \cup {id}
    /\ UNCHANGED <<mu, nextID, objs, task, createLog, afterDelete>>
    /\ UNCHANGED <<limVars, pipeVars>>

(***************************************************************************)
(* The caller is done with the value it was given (a handler has written   *)
(* it to the response, respondJSON of package handlers) and makes its next    *)
(* call.                                                                   *)
(***************************************************************************)
Drop(c) ==
    /\ pc[c] = "ret"
    /\ pc' = [pc EXCEPT ![c] = "call"]
    /\ arg' = [arg EXCEPT ![c] = NoArg]
    /\ res' = [res EXCEPT ![c] = NoRes]
    /\ snap' = [snap EXCEPT ![c] = {}]
    /\ UNCHANGED <<storeVars, task, createLog, afterDelete, titleArg, lastUpd, deleted>>
    /\ UNCHANGED <<limVars, pipeVars>>



NextStore ==
    \/ \E c \in Callers, t \in Titles : CreateLock(c, t)
    \/ \E c \in Callers : CreateStore(c)
    \/ \E c \in Callers : CreateReturn(c)
    \/ \E c \in Callers, id \in IdArgs : CallGetByID(c, id)
    \/ \E c \in Callers : CallGetAll(c)
    \/ \E c \in Callers, d \in BOOLEAN : CallGetByStatus(c, d)
    \/ \E c \in Callers, id \in IdArgs, d \in BOOLEAN : CallUpdate(c, id, d)
    \/ \E c \in Callers, id \in IdArgs : CallDelete(c, id)
    \/ \E c \in Callers : Drop(c)

SpecStore == InitStore /\ [][NextStore]_vars

(***************************************************************************)
(* RateLimiter (package middleware, lines 79-156).  getVisitor and the    *)
(* sweep of cleanupVisitors each hold rl.mu for one read-and-write of the map and   *)
(* are one step; allow, after getVisitor has returned and released rl.mu,  *)
(* takes rl.mu again and is modelled in two steps under it: the refill and *)
(* the test of v.tokens, then the decrement.                               *)
(*                                                                         *)
(* The code reads a time stamp only to subtract it from time.Now() and     *)
(* compare the difference with time.Minute or rl.cleanup.  The model keeps *)
(* the difference itself: sinceSeen is time.Since(v.lastSeen) and          *)
(* sinceRefill is now.Sub(v.lastRefill), in clock ticks; Tick adds one to  *)
(* each, up to the first value past which the code's comparisons no        *)
(* longer change.                                                          *)
(***************************************************************************)
\* an allow that does not take rl.mu
CanLockRLUnguarded == TRUE
\* rl.mu.Lock()
CanLockRL == rlmu = 0

\* &visitor{tokens: rl.rate, lastSeen: time.Now(), lastRefill: time.Now()}
NewVisitor == [tokens |-> RequestsPerMinute, sinceSeen |-> 0, sinceRefill |-> 0]

\* a refill that waits for more than a minute to have passed
NeedsRefillLate(vis) == vis.sinceRefill > Minute
\* now.Sub(v.lastRefill) >= time.Minute
NeedsRefill(vis) == vis.sinceRefill >= Minute

\* a refill that leaves the window start where it was
RefillTokensOnly(vis) == [vis EXCEPT !.tokens = RequestsPerMinute]
\* v.tokens = rl.rate; v.lastRefill = now
Refill(vis) == [vis EXCEPT !.tokens = RequestsPerMinute, !.sinceRefill = 0]

\* a sweep that removes a visitor once the interval has passed
ExpiredEarly(vis) == vis.sinceSeen >= Cleanup
\* time.Since(v.lastSeen) > rl.cleanup
Expired(vis) == vis.sinceSeen > Cleanup

\* the visitor objects some pointer leads to: those of the map vis and of
\* the goroutines' locals vs; the others are garbage
Referenced(vis, vs) == ({vis[i] : i \in DOMAIN vis} \cup {vs[c] : c \in Callers}) \ {0}
Collect(o, vis, vs) == [a \in DOMAIN o \cap Referenced(vis, vs) |-> o[a]]
\* the address of a new object
NewAddr == CHOOSE a \in 1..(Cardinality(DOMAIN vobjs) + 1) : a \notin DOMAIN vobjs

\* a lookup that never finds the entry
VisitorExistsNever(ip) == FALSE
\* v, exists := rl.visitors[ip]
VisitorExists(ip) == ip \in DOMAIN visitors

\* rl.getVisitor(ip), called by allow
GetVisitor(c, ip) ==
    /\ pc[c] = "limit"
    /\ CanLockRL
    /\ IF VisitorExists(ip)
       THEN /\ v' = [v EXCEPT ![c] = visitors[ip]]
            /\ UNCHANGED <<visitors, vobjs, win>>
       ELSE /\ vobjs' = MapSet(vobjs, NewAddr, NewVisitor)
            /\ visitors' = MapSet(visitors, ip, NewAddr)
            /\ v' = [v EXCEPT ![c] = NewAddr]
            /\ win' = With(win, NewAddr, [since |-> 0, n |-> 0])
    /\ pc' = [pc EXCEPT ![c] = "allow"]
    /\ UNCHANGED <<rlmu, ticker, ok, evicted>>
    /\ UNCHANGED <<storeVars, arg, task, res, histVars, pipeVars>>

\* allow, from rl.mu.Lock() to the test of v.tokens > 0
AllowCheck(c) ==
    /\ pc[c] = "allow"
    /\ CanLockRL
    /\ LET old == vobjs[v[c]]
           cur == [(IF NeedsRefill(old) THEN Refill(old) ELSE old)
                      EXCEPT !.sinceSeen = 0]
       IN  /\ vobjs' = [vobjs EXCEPT ![v[c]] = cur]
           /\ win' = [win EXCEPT ![v[c]] =
                        IF @.since >= Minute
                        THEN [since |-> 0, n |-> 1]
                        ELSE [@ EXCEPT !.n = IF @ > RequestsPerMinute THEN @ ELSE @ + 1]]
           /\ IF cur.tokens > 0
              THEN /\ pc' = [pc EXCEPT ![c] = "allowDec"]
                   /\ rlmu' = c
                   /\ UNCHANGED ok
              ELSE /\ pc' = [pc EXCEPT ![c] = "limited"]
                   /\ ok' = [ok EXCEPT ![c] = FALSE]
                   /\ rlmu' = 0
    /\ UNCHANGED <<visitors, ticker, v, evicted>>
    /\ UNCHANGED <<storeVars, arg, task, res, histVars, pipeVars>>

\* v.tokens--; return true
AllowDec(c) ==
    /\ pc[c] = "allowDec"
    /\ vobjs' = [vobjs EXCEPT ![v[c]].tokens = @ - 1]
    /\ pc' = [pc EXCEPT ![c] = "limited"]
    /\ ok' = [ok EXCEPT ![c] = TRUE]
    /\ rlmu' = 0
    /\ UNCHANGED <<visitors, ticker, v, win, evicted>>
    /\ UNCHANGED <<storeVars, arg, task, res, histVars, pipeVars>>

\* one round of the loop of cleanupVisitors, on a tick of its ticker
Sweep ==
    /\ ticker.ready
    /\ CanLockRL
    /\ LET kept == [ip \in {i \in DOMAIN visitors : ~Expired(vobjs[visitors[i]])}
                      |-> visitors[ip]]
       IN  /\ visitors' = kept
           /\ vobjs' = Collect(vobjs, kept, v)
           /\ win' = Collect(win, kept, v)
           /\ evicted' = evicted \cup (DOMAIN visitors \ DOMAIN kept)
    /\ ticker' = [ticker EXCEPT !.ready = FALSE]
    /\ UNCHANGED <<rlmu, v, ok>>
    /\ UNCHANGED <<storeVars, callVars, histVars, pipeVars>>

\* d more ticks on a time difference that matters up to limit
Later(d, limit) == IF d >= limit THEN d ELSE d + 1

\* one clock tick passes
Tick ==
    /\ vobjs' = [a \in DOMAIN vobjs |->
                   [vobjs[a] EXCEPT !.sinceSeen = Later(@, Cleanup + 1),
                                    !.sinceRefill = Later(@, Minute)]]
    /\ win' = [a \in DOMAIN win |-> [win[a] EXCEPT !.since = Later(@, Minute)]]
    /\ ticker' = IF ticker.since + 1 = Cleanup
                 THEN [since |-> 0, ready |-> TRUE]
                 ELSE [ticker EXCEPT !.since = @ + 1]
    /\ UNCHANGED <<rlmu, visitors, v, ok, evicted>>
    /\ UNCHANGED <<storeVars, callVars, histVars, pipeVars>>

\* the caller of allow has used the answer and calls allow again
LimitDone(c) ==
    /\ pc[c] = "limited"
    /\ pc' = [pc EXCEPT ![c] = "limit"]
    /\ v' = [v EXCEPT ![c] = 0]
    /\ ok' = [ok EXCEPT ![c] = FALSE]
    /\ vobjs' = Collect(vobjs, visitors, v')
    /\ win' = Collect(win, visitors, v')
    /\ UNCHANGED <<rlmu, visitors, ticker, evicted>>
    /\ UNCHANGED <<storeVars, arg, task, res, histVars, pipeVars>>

\* the goroutines are about to call allow
InitLimiter == InitState("limit")

NextLimiter ==
    \/ \E c \in Callers, ip \in IPs : GetVisitor(c, ip)
    \/ \E c \in Callers : AllowCheck(c)
    \/ \E c \in Callers : AllowDec(c)
    \/ \E c \in Callers : LimitDone(c)
    \/ Sweep
    \/ Tick

SpecLimiter == InitLimiter /\ [][NextLimiter]_vars

\* the limiter with two clients whose requests one goroutine serves in turn
SweepIPs == {"ip1", "ip2"}
NextEviction ==
    \/ \E ip \in SweepIPs : GetVisitor(1, ip)
    \/ AllowCheck(1)
    \/ AllowDec(1)
    \/ LimitDone(1)
    \/ Sweep
    \/ Tick

SpecEviction == InitLimiter /\ [][NextEviction]_vars

(***************************************************************************)
(* The handler chain (main.go:46-51, package middleware, router,           *)
(* handlers).  A handler is the sequence of its stages, outermost first:   *)
(* a middleware wrapped around a handler puts its stage in front.  A       *)
(* goroutine serving a request is at stage Handler[at]; calling            *)
(* next.ServeHTTP moves it one stage in.  Of the middlewares only Logger   *)
(* has code after next.ServeHTTP returns; Finish runs it.                  *)
(***************************************************************************)
\* middlewares[i](final)
Wrap(m, final) == <<m>> \o final

RECURSIVE ChainUp(_, _, _)
ChainUp(middlewares, i, final) ==
    IF i > Len(middlewares) THEN final
    ELSE ChainUp(middlewares, i + 1, Wrap(middlewares[i], final))
\* a Chain whose loop runs from the first middleware to the last
ChainAscending(middlewares, final) == ChainUp(middlewares, 1, final)

RECURSIVE ChainDown(_, _, _)
\* for i := len(middlewares) - 1; i >= 0; i-- { final = middlewares[i](final) }
ChainDown(middlewares, i, final) ==
    IF i < 1 THEN final
    ELSE ChainDown(middlewares, i - 1, Wrap(middlewares[i], final))
Chain(middlewares, final) == ChainDown(middlewares, Len(middlewares), final)

\* middleware.Chain(middleware.Logger, middleware.RequestID, rateLimiter.Limit,
\*                  middleware.APIKeyAuth(validAPIKeys))(r)
\* a chain in which RequestID is the innermost middleware
MiddlewaresRequestIDLast == <<"logger", "limit", "auth", "requestID">>
Middlewares == <<"logger", "requestID", "limit", "auth">>
Handler == Chain(Middlewares, <<"router">>)

\* validAPIKeys, and validKeys[apiKey] (false for a key the map lacks)
ValidAPIKeys == [k \in {"secret12345", "dev-key-001", "production-key-1"} |-> TRUE]
\* an allow-list that every key is in
ValidKeyAny(k) == TRUE
ValidKey(k) == k \in DOMAIN ValidAPIKeys /\ ValidAPIKeys[k]

\* r.routes[method][path], "" if there is none (main.go:25-34)
Routes ==
    [m \in {"GET", "POST", "PATCH", "DELETE"} |->
        IF m = "GET" THEN [p \in {"/v1/tasks", "/health"} |->
                             IF p = "/health" THEN "health" ELSE "GetTask"]
        ELSE [p \in {"/v1/tasks"} |->
                CASE m = "POST" -> "CreateTask"
                  [] m = "PATCH" -> "UpdateTask"
                  [] OTHER -> "DeleteTask"]]
Route(method, path) ==
    IF method \in DOMAIN Routes /\ path \in DOMAIN Routes[method]
    THEN Routes[method][path] ELSE ""

\* fmt.Sprintf("req-%d", requestIDCounter)
FormatReqID(n) == <<"req-", n>>

\* strconv.Atoi on the id strings the requests carry
Digits == [d \in {"0", "1", "2", "3"} |->
             CASE d = "0" -> 0 [] d = "1" -> 1 [] d = "2" -> 2 [] OTHER -> 3]
Atoi(str) == IF str \in DOMAIN Digits THEN [err |-> FALSE, n |-> Digits[str]]
             ELSE [err |-> TRUE, n |-> 0]
\* strconv.ParseBool
ParseBool(str) ==
    IF str \in {"1", "t", "T", "TRUE", "true", "True"} THEN [err |-> FALSE, b |-> TRUE]
    ELSE IF str \in {"0", "f", "F", "FALSE", "false", "False"} THEN [err |-> FALSE, b |-> FALSE]
    ELSE [err |-> TRUE, b |-> FALSE]

\* strings.TrimSpace
Space == {" ", "\t", "\n", "\r"}
RECURSIVE TrimLeft(_)
TrimLeft(str) == IF str # <<>> /\ Head(str) \in Space THEN TrimLeft(Tail(str)) ELSE str
RECURSIVE TrimRight(_)
TrimRight(str) ==
    IF str # <<>> /\ str[Len(str)] \in Space
    THEN TrimRight(SubSeq(str, 1, Len(str) - 1)) ELSE str
TrimSpace(str) == TrimRight(TrimLeft(str))

MaxTitleLength == 200

\* A title is the sequence of its characters; a character is "a", " ", ..
\* for the ASCII character itself or the name of its code point.  len(s) of
\* a Go string is the number of bytes of its UTF-8 encoding.
EAcute == "U+00E9"
Utf8Len(ch) == IF ch = EAcute THEN 2 ELSE 1
RECURSIVE ByteLen(_)
\* the sum of the characters' lengths, by halves
ByteLen(str) ==
    IF str = <<>> THEN 0
    ELSE IF Len(str) = 1 THEN Utf8Len(str[1])
    ELSE ByteLen(SubSeq(str, 1, Len(str) \div 2))
            + ByteLen(SubSeq(str, Len(str) \div 2 + 1, Len(str)))

\* the requests clients send
Key == "secret12345"
Rq(method, path, key, id, done, body) ==
    [method |-> method, path |-> path, key |-> key, remoteAddr |-> "ip1",
     id |-> id, done |-> done, body |-> body]
TitleBody(t) == [NoBody EXCEPT !.title = t]
Requests ==
    {Rq("POST", "/v1/tasks", k, "", "", TitleBody(<<"a", " ">>)) : k \in {Key, "wrong"}}
    \cup {Rq("POST", "/v1/tasks", Key, "", "", TitleBody(<<" ">>))}
    \cup {Rq("GET", "/v1/tasks", Key, i, "", NoBody) : i \in {"", "1"}}
    \cup {Rq("GET", "/v1/tasks", Key, "", "true", NoBody)}
    \cup {Rq("PATCH", "/v1/tasks", Key, "1", "", [NoBody EXCEPT !.done = TRUE])}
    \cup {Rq("DELETE", "/v1/tasks", k, "1", "", NoBody) : k \in {Key, ""}}
    \cup {Rq("GET", "/health", k, "", "", NoBody) : k \in {Key, ""}}
    \cup {Rq("GET", "/missing", Key, "", "", NoBody)}

\* the titles of POST /v1/tasks around the length limit
Rep(ch, n) == [i \in 1..n |-> ch]
LimitTitles ==
    {Rep("a", MaxTitleLength), Rep("a", MaxTitleLength + 1), Rep(EAcute, MaxTitleLength),
     <<" ", "a", " ">>, <<" ">>, <<>>}
TitleRequests ==
    {Rq("POST", "/v1/tasks", Key, "", "", TitleBody(t)) : t \in LimitTitles}
    \cup {Rq("POST", "/v1/tasks", Key, "", "", [NoBody EXCEPT !.ok = FALSE])}

\* the server hands an accepted request to the outermost stage
Accept(c, r) ==
    /\ pc[c] = "idle"
    /\ arrived < MaxRequests
    /\ arrived' = arrived + 1
    /\ req' = [req EXCEPT ![c] = r]
    /\ at' = [at EXCEPT ![c] = 1]
    /\ pc' = [pc EXCEPT ![c] = Handler[1]]
    /\ trail' = [trail EXCEPT ![c] = <<Handler[1]>>]
    /\ ctx' = [ctx EXCEPT ![c] = Nil]
    /\ logctx' = [logctx EXCEPT ![c] = Nil]
    /\ hdr' = [hdr EXCEPT ![c] = Nil]
    /\ resp' = [resp EXCEPT ![c] = NoResp]
    /\ logged' = [logged EXCEPT ![c] = NoLog]
    /\ UNCHANGED <<requestIDMu, rd, issued, requestIDCounter, arg, task, res>>
    /\ UNCHANGED <<storeVars, histVars, limVars>>

\* next.ServeHTTP(w, r)
ServeNext(c) ==
    /\ at' = [at EXCEPT ![c] = @ + 1]
    /\ pc' = [pc EXCEPT ![c] = Handler[at[c] + 1]]
    /\ trail' = [trail EXCEPT ![c] = Append(@, Handler[at[c] + 1])]

\* models.ErrorResponse{Error: msg}
ErrorResponse(msg) == [error |-> msg]

\* w.WriteHeader(code) and json.NewEncoder(w).Encode(data) after it: the
\* headers set so far go out with the status, and Logger's responseWriter,
\* if the writer is wrapped in one, records the status; then the stage
\* returns
WriteHeader(c, code, data) ==
    /\ resp' = [resp EXCEPT ![c] =
                  [written |-> TRUE, status |-> code, xRequestID |-> hdr[c],
                   body |-> data]]
    /\ logged' = [logged EXCEPT ![c].status = IF logged[c].wrapped THEN code ELSE @]
    /\ pc' = [pc EXCEPT ![c] = "finish"]

\* Logger, up to next.ServeHTTP(wrapped, r)  (middleware: Logger)
Logger(c) ==
    /\ pc[c] = "logger"
    /\ logctx' = [logctx EXCEPT ![c] = ctx[c]]
    /\ logged' = [logged EXCEPT ![c] = [NoLog EXCEPT !.wrapped = TRUE, !.status = 200]]
    /\ ServeNext(c)
    /\ UNCHANGED <<requestIDMu, rd, issued, requestIDCounter, req, ctx, hdr, resp, arrived, arg, task, res>>
    /\ UNCHANGED <<storeVars, histVars, limVars>>

\* a RequestID that does not take requestIDMu
CanLockRequestIDUnguarded == TRUE
\* requestIDMu.Lock()
CanLockRequestID == requestIDMu = 0

\* RequestID, from requestIDMu.Lock() to the read of requestIDCounter++
\* (middleware: RequestID)
RequestIDLock(c) ==
    /\ pc[c] = "requestID"
    /\ CanLockRequestID
    /\ requestIDMu' = c
    /\ rd' = [rd EXCEPT ![c] = requestIDCounter]
    /\ pc' = [pc EXCEPT ![c] = "requestIDInc"]
    /\ UNCHANGED <<requestIDCounter, issued, req, at, ctx, logctx, hdr, resp, logged,
                   arrived, trail, arg, task, res>>
    /\ UNCHANGED <<storeVars, histVars, limVars>>

\* RequestID, from the write of requestIDCounter++ to next.ServeHTTP
RequestID(c) ==
    /\ pc[c] = "requestIDInc"
    /\ requestIDCounter' = rd[c] + 1
    /\ requestIDMu' = 0
    /\ rd' = [rd EXCEPT ![c] = 0]
    /\ ctx' = [ctx EXCEPT ![c] = FormatReqID(requestIDCounter')]
    /\ hdr' = [hdr EXCEPT ![c] = FormatReqID(requestIDCounter')]
    /\ issued' = Append(issued, FormatReqID(requestIDCounter'))
    /\ ServeNext(c)
    /\ UNCHANGED <<req, logctx, resp, logged, arrived, arg, task, res>>
    /\ UNCHANGED <<storeVars, histVars, limVars>>

\* rl.Limit, once rl.allow(ip) has returned  (middleware: RateLimiter.Limit)
Limit(c) ==
    /\ pc[c] = "limited"
    /\ IF ~ok[c]
       THEN /\ WriteHeader(c, 429, ErrorResponse("rate limit exceeded"))
            /\ UNCHANGED <<at, trail>>
       ELSE /\ ServeNext(c)
            /\ UNCHANGED <<resp, logged>>
    /\ v' = [v EXCEPT ![c] = 0]
    /\ ok' = [ok EXCEPT ![c] = FALSE]
    /\ vobjs' = Collect(vobjs, visitors, v')
    /\ win' = Collect(win, visitors, v')
    /\ UNCHANGED <<rlmu, visitors, ticker, evicted>>
    /\ UNCHANGED <<requestIDMu, rd, issued, requestIDCounter, req, ctx, logctx, hdr, arrived, arg, task, res>>
    /\ UNCHANGED <<storeVars, histVars>>

\* APIKeyAuth(validKeys)  (middleware: APIKeyAuth)
APIKeyAuth(c) ==
    /\ pc[c] = "auth"
    /\ IF req[c].key = "" \/ ~ValidKey(req[c].key)
       THEN /\ WriteHeader(c, 401, ErrorResponse("unauthorized"))
            /\ UNCHANGED <<at, trail>>
       ELSE /\ ServeNext(c)
            /\ UNCHANGED <<resp, logged>>
    /\ UNCHANGED <<requestIDMu, rd, issued, requestIDCounter, req, ctx, logctx, hdr, arrived, arg, task, res>>
    /\ UNCHANGED <<storeVars, histVars, limVars>>

\* Router.ServeHTTP: the registered handler, or http.NotFound
Router(c) ==
    /\ pc[c] = "router"
    /\ IF Route(req[c].method, req[c].path) # ""
       THEN /\ pc' = [pc EXCEPT ![c] = Route(req[c].method, req[c].path)]
            /\ trail' = [trail EXCEPT ![c] = Append(@, Route(req[c].method, req[c].path))]
            /\ UNCHANGED <<resp, logged>>
       ELSE /\ WriteHeader(c, 404, "404 page not found")
            /\ UNCHANGED trail
    /\ UNCHANGED <<requestIDMu, rd, issued, requestIDCounter, req, at, ctx, logctx, hdr, arrived, arg, task, res>>
    /\ UNCHANGED <<storeVars, histVars, limVars>>

\* a handler has checked its input and is about to call the store method a
ToStore(c, a) ==
    /\ pc' = [pc EXCEPT ![c] = "call"]
    /\ arg' = [arg EXCEPT ![c] = a]
    /\ UNCHANGED <<resp, logged>>

\* respondJSON(w, http.StatusBadRequest, ...)
BadRequest(c, msg) == WriteHeader(c, 400, ErrorResponse(msg)) /\ UNCHANGED arg

\* TaskHandler.GetTask and GetAllTasks, up to the call of the store
GetTask(c) ==
    /\ pc[c] = "GetTask"
    /\ IF req[c].id = ""
       THEN IF req[c].done # ""
            THEN IF ParseBool(req[c].done).err
                 THEN BadRequest(c, "invalid done parameter")
                 ELSE ToStore(c, [NoArg EXCEPT !.op = "GetByStatus",
                                               !.done = ParseBool(req[c].done).b])
            ELSE ToStore(c, [NoArg EXCEPT !.op = "GetAll"])
       ELSE IF Atoi(req[c].id).err \/ Atoi(req[c].id).n <= 0
            THEN BadRequest(c, "invalid id")
            ELSE ToStore(c, [NoArg EXCEPT !.op = "GetByID", !.id = Atoi(req[c].id).n])
    /\ UNCHANGED <<requestIDMu, rd, issued, requestIDCounter, req, at, ctx, logctx, hdr, arrived, trail, task, res>>
    /\ UNCHANGED <<storeVars, histVars, limVars>>

\* TaskHandler.CreateTask, up to h.store.Create(req.Title)
CreateTask(c) ==
    /\ pc[c] = "CreateTask"
    /\ IF ~req[c].body.ok
       THEN BadRequest(c, "invalid request body")
       ELSE IF TrimSpace(req[c].body.title) = <<>>
            THEN BadRequest(c, "invalid title")
            ELSE IF ByteLen(TrimSpace(req[c].body.title)) > MaxTitleLength
                 THEN BadRequest(c, "title exceeds maximum length of 200 characters")
                 ELSE ToStore(c, [NoArg EXCEPT !.op = "Create",
                                               !.title = TrimSpace(req[c].body.title)])
    /\ UNCHANGED <<requestIDMu, rd, issued, requestIDCounter, req, at, ctx, logctx, hdr, arrived, trail, task, res>>
    /\ UNCHANGED <<storeVars, histVars, limVars>>

\* TaskHandler.UpdateTask, up to h.store.Update(id, req.Done)
UpdateTask(c) ==
    /\ pc[c] = "UpdateTask"
    /\ IF req[c].id = ""
       THEN BadRequest(c, "id parameter is required")
       ELSE IF Atoi(req[c].id).err \/ Atoi(req[c].id).n <= 0
            THEN BadRequest(c, "invalid id")
            ELSE IF ~req[c].body.ok
                 THEN BadRequest(c, "invalid request body")
                 ELSE ToStore(c, [NoArg EXCEPT !.op = "Update", !.id = Atoi(req[c].id).n,
                                               !.done = req[c].body.done])
    /\ UNCHANGED <<requestIDMu, rd, issued, requestIDCounter, req, at, ctx, logctx, hdr, arrived, trail, task, res>>
    /\ UNCHANGED <<storeVars, histVars, limVars>>

\* TaskHandler.DeleteTask, up to h.store.Delete(id)
DeleteTask(c) ==
    /\ pc[c] = "DeleteTask"
    /\ IF req[c].id = ""
       THEN BadRequest(c, "id parameter is required")
       ELSE IF Atoi(req[c].id).err \/ Atoi(req[c].id).n <= 0
            THEN BadRequest(c, "invalid id")
            ELSE ToStore(c, [NoArg EXCEPT !.op = "Delete", !.id = Atoi(req[c].id).n])
    /\ UNCHANGED <<requestIDMu, rd, issued, requestIDCounter, req, at, ctx, logctx, hdr, arrived, trail, task, res>>
    /\ UNCHANGED <<storeVars, histVars, limVars>>

\* the handler of GET /health (main.go:30-34)
Health(c) ==
    /\ pc[c] = "health"
    /\ WriteHeader(c, 200, [status |-> "healthy"])
    /\ UNCHANGED <<requestIDMu, rd, issued, requestIDCounter, req, at, ctx, logctx, hdr, arrived, trail, arg, task, res>>
    /\ UNCHANGED <<storeVars, histVars, limVars>>

\* the status a handler answers with once its store method has returned
StatusOf(op, err) ==
    IF err = ErrTaskNotFound /\ op \in {"GetByID", "Update", "Delete"} THEN 404
    ELSE IF op = "Create" THEN 201
    ELSE 200

\* the data a handler encodes once its store method has returned r; a task
\* returned by pointer is read when it is encoded
DataOf(op, r) ==
    IF r.err = ErrTaskNotFound /\ op \in {"GetByID", "Update", "Delete"}
    THEN ErrorResponse("task not found")
    ELSE IF op \in {"Create", "GetByID"} THEN Deref(r.task)
    ELSE IF op \in {"GetAll", "GetByStatus"} THEN {Deref(x) : x \in r.list}
    ELSE [updated |-> TRUE]

\* the handlers, from the return of the store method: respondJSON
Respond(c) ==
    /\ pc[c] = "ret"
    /\ WriteHeader(c, StatusOf(arg[c].op, res[c].err), DataOf(arg[c].op, res[c]))
    /\ arg' = [arg EXCEPT ![c] = NoArg]
    /\ res' = [res EXCEPT ![c] = NoRes]
    /\ snap' = [snap EXCEPT ![c] = {}]
    /\ UNCHANGED <<requestIDMu, rd, issued, requestIDCounter, req, at, ctx, logctx, hdr, arrived, trail, task>>
    /\ UNCHANGED <<storeVars, createLog, afterDelete, titleArg, lastUpd, deleted, limVars>>

\* the stages return to their callers, Logger prints its line, and the
\* goroutine is free for the next request
Finish(c) ==
    /\ pc[c] = "finish"
    /\ logged' = [logged EXCEPT ![c] =
                    IF @.wrapped THEN [@ EXCEPT !.printed = TRUE, !.requestID = logctx[c]]
                    ELSE @]
    /\ pc' = [pc EXCEPT ![c] = "idle"]
    /\ at' = [at EXCEPT ![c] = 0]
    /\ req' = [req EXCEPT ![c] = NoReq]
    /\ ctx' = [ctx EXCEPT ![c] = Nil]
    /\ logctx' = [logctx EXCEPT ![c] = Nil]
    /\ hdr' = [hdr EXCEPT ![c] = Nil]
    /\ trail' = [trail EXCEPT ![c] = <<>>]
    /\ UNCHANGED <<requestIDMu, rd, issued, requestIDCounter, resp, arrived, arg, task, res>>
    /\ UNCHANGED <<storeVars, histVars, limVars>>

\* the server is listening and no request has come yet; the requests of
\* this specification all come within one window of the limiter
InitPipeline == InitState("idle")

NextPipeline ==
    \/ \E c \in Callers, r \in Requests : Accept(c, r)
    \/ \E c \in Callers : Logger(c)
    \/ \E c \in Callers : RequestIDLock(c)
    \/ \E c \in Callers : RequestID(c)
    \/ \E c \in Callers : GetVisitor(c, req[c].remoteAddr)
    \/ \E c \in Callers : AllowCheck(c)
    \/ \E c \in Callers : AllowDec(c)
    \/ \E c \in Callers : Limit(c)
    \/ \E c \in Callers : APIKeyAuth(c)
    \/ \E c \in Callers : Router(c)
    \/ \E c \in Callers : GetTask(c)
    \/ \E c \in Callers : CreateTask(c)
    \/ \E c \in Callers : UpdateTask(c)
    \/ \E c \in Callers : DeleteTask(c)
    \/ \E c \in Callers : Health(c)
    \/ \E c \in Callers : arg[c].op = "Create" /\ CreateLock(c, arg[c].title)
    \/ \E c \in Callers : CreateStore(c)
    \/ \E c \in Callers : CreateReturn(c)
    \/ \E c \in Callers : arg[c].op = "GetByID" /\ CallGetByID(c, arg[c].id)
    \/ \E c \in Callers : arg[c].op = "GetAll" /\ CallGetAll(c)
    \/ \E c \in Callers : arg[c].op = "GetByStatus" /\ CallGetByStatus(c, arg[c].done)
    \/ \E c \in Callers : arg[c].op = "Update" /\ CallUpdate(c, arg[c].id, arg[c].done)
    \/ \E c \in Callers : arg[c].op = "Delete" /\ CallDelete(c, arg[c].id)
    \/ \E c \in Callers : Respond(c)
    \/ \E c \in Callers : Finish(c)

SpecPipeline == InitPipeline /\ [][NextPipeline]_vars

\* the server when its clients only create tasks
NextCreateTask ==
    \/ \E c \in Callers, r \in TitleRequests : Accept(c, r)
    \/ \E c \in Callers : Logger(c)
    \/ \E c \in Callers : RequestIDLock(c)
    \/ \E c \in Callers : RequestID(c)
    \/ \E c \in Callers : GetVisitor(c, req[c].remoteAddr)
    \/ \E c \in Callers : AllowCheck(c)
    \/ \E c \in Callers : AllowDec(c)
    \/ \E c \in Callers : Limit(c)
    \/ \E c \in Callers : APIKeyAuth(c)
    \/ \E c \in Callers : Router(c)
    \/ \E c \in Callers : CreateTask(c)
    \/ \E c \in Callers : arg[c].op = "Create" /\ CreateLock(c, arg[c].title)
    \/ \E c \in Callers : CreateStore(c)
    \/ \E c \in Callers : CreateReturn(c)
    \/ \E c \in Callers : Respond(c)
    \/ \E c \in Callers : Finish(c)

SpecCreateTask == InitPipeline /\ [][NextCreateTask]_vars

(***************************************************************************)
(* Properties of the TaskStore                                             *)
(***************************************************************************)
\* the step in which caller c's call of method op returns
Returns(c, op) == pc[c] # "ret" /\ pc'[c] = "ret" /\ arg'[c].op = op
Holds(c, op) == pc[c] = "ret" /\ arg[c].op = op

\* C1: the IDs returned by successive Create calls start at 1 and are
\* strictly increasing, so none is returned twice, whatever Update and
\* Delete calls come in between.
C1_IDsStrictlyIncreasing ==
    \A i \in 1..Len(createLog) :
        /\ i = 1 => createLog[i] = 1
        /\ i > 1 => createLog[i] > createLog[i - 1]

\* a Create returned a new ID after the task of an earlier ID was deleted
C1_Witness ==
    /\ Len(createLog) >= 2
    /\ afterDelete
    /\ createLog[1] \in deleted

\* C2: once the concurrent Create calls have returned, the IDs they
\* returned are pairwise distinct and are exactly 1..N for N calls, and the
\* store holds one record per call (less the ones deleted since).
C2_ConcurrentCreate ==
    (\A c \in Callers : pc[c] \notin {"create", "createInc"}) =>
        /\ {createLog[i] : i \in 1..Len(createLog)} = 1..Len(createLog)
        /\ DOMAIN tasks = (1..Len(createLog)) \ deleted
        /\ \A id \in DOMAIN tasks : objs[tasks[id]].ID = id
        /\ nextID = Len(createLog) + 1

\* every caller ran Create and holds the task it was given
C2_Witness ==
    /\ \A c \in Callers : Holds(c, "Create")
    /\ Len(createLog) = Cardinality(Callers)
    /\ Cardinality(DOMAIN tasks) = Cardinality(Callers)

\* C3: what a caller sees through a task it was handed (by Create, GetByID,
\* GetAll or GetByStatus) stays what it was when the call returned.
C3_ReturnedTasksDetached ==
    \A c \in Callers : pc[c] = "ret" => Seen(objs, res[c]) = snap[c]

\* C6: GetByID on an id Create returned, not updated or deleted since,
\* returns that id, the title Create was given and done = false.
C6_CreateThenGetByID ==
    \A id \in DOMAIN titleArg \ DOMAIN lastUpd :
        GetByID(id) = [NoRes EXCEPT !.task =
            [addr |-> 0, val |-> [ID |-> id, Title |-> titleArg[id], Done |-> FALSE]]]

\* a GetByID has returned the task of a Create that was given title "b"
C6_Witness ==
    \E c \in Callers :
        /\ Holds(c, "GetByID")
        /\ arg[c].id \in DOMAIN titleArg \ DOMAIN lastUpd
        /\ res[c].err = ErrNil
        /\ res[c].task.val = [ID |-> arg[c].id, Title |-> <<"b">>, Done |-> FALSE]

C7_Inv ==
    \A id \in DOMAIN lastUpd :
        /\ GetByID(id).err = ErrNil
        /\ Deref(GetByID(id).task).Done = lastUpd[id]

C7_Step ==
    \A c \in Callers :
        /\ Returns(c, "Update") =>
             IF Exists(arg'[c].id)
             THEN res'[c].err = ErrNil
             ELSE /\ res'[c].err = ErrTaskNotFound
                  /\ UNCHANGED <<tasks, objs, nextID>>
        /\ (Returns(c, "GetByID") /\ arg'[c].id \in DOMAIN lastUpd) =>
             /\ res'[c].err = ErrNil
             /\ res'[c].task.val.Done = lastUpd[arg'[c].id]

\* C7: Update(id, d) on a stored id succeeds, and GetByID(id) returns
\* done = d until the next Update or Delete of id; Update on an id that is
\* not stored returns ErrTaskNotFound and leaves the records and nextID
\* as they were.
C7_Update == []C7_Inv /\ [][C7_Step]_vars

\* an Update to done = true of a stored task returned, and a GetByID of it then
C7_Witness ==
    \E c, d \in Callers :
        /\ Holds(c, "GetByID") /\ res[c].err = ErrNil /\ res[c].task.val.Done
        /\ Holds(d, "Update") /\ res[d].err = ErrNil /\ arg[d].id = arg[c].id
        /\ lastUpd[arg[c].id]

C8_Inv ==
    \A id \in deleted : ~Exists(id) /\ GetByID(id).err = ErrTaskNotFound

C8_Step ==
    \A c \in Callers :
        /\ Returns(c, "Delete") =>
             IF Exists(arg'[c].id)
             THEN /\ res'[c].err = ErrNil
                  /\ DOMAIN tasks' = DOMAIN tasks \ {arg'[c].id}
                  /\ \A j \in DOMAIN tasks' : objs'[tasks'[j]] = objs[tasks[j]]
                  /\ nextID' = nextID
             ELSE /\ res'[c].err = ErrTaskNotFound
                  /\ UNCHANGED <<tasks, objs, nextID>>
        /\ ((Returns(c, "GetByID") \/ Returns(c, "Update") \/ Returns(c, "Delete"))
                /\ arg'[c].id \in deleted) =>
             res'[c].err = ErrTaskNotFound

\* C8: Delete(id) on a stored id removes that record and nothing else, and
\* GetByID, Update and Delete of that id return ErrTaskNotFound from then
\* on; Delete on an id that is not stored returns ErrTaskNotFound and
\* changes nothing.
C8_Delete == []C8_Inv /\ [][C8_Step]_vars

\* a task was deleted while another one stayed, later tasks were created,
\* and a call naming the deleted id has returned ErrTaskNotFound
C8_Witness ==
    \E c \in Callers :
        /\ Holds(c, "Update") \/ Holds(c, "GetByID")
        /\ arg[c].id \in deleted
        /\ res[c].err = ErrTaskNotFound
        /\ DOMAIN tasks # {}
        /\ afterDelete

\* C9: the done flag of a stored task changes only in the step of a
\* successful Update naming its id.
C9_DoneOnlyByUpdate ==
    [][\A id \in DOMAIN tasks \cap DOMAIN tasks' :
          objs'[tasks'[id]].Done # objs[tasks[id]].Done =>
              \E c \in Callers :
                  Returns(c, "Update") /\ arg'[c].id = id /\ res'[c].err = ErrNil]_vars

\* an Update of one task has returned while another task is stored with
\* the flag it was created with
C9_Witness ==
    \E c \in Callers :
        /\ Holds(c, "Update") /\ res[c].err = ErrNil /\ arg[c].done
        /\ \E id \in DOMAIN tasks :
              id # arg[c].id /\ id \notin DOMAIN lastUpd /\ ~objs[tasks[id]].Done

(***************************************************************************)
(* Properties of the RateLimiter                                           *)
(***************************************************************************)
C4_Step ==
    \A c \in Callers :
        /\ (pc[c] = "allow" /\ pc'[c] # "allow") =>
             LET admitted == pc'[c] = "allowDec"
             IN  /\ IF win[v[c]].since < Minute
                    THEN admitted <=> win[v[c]].n < RequestsPerMinute
                    ELSE admitted
                 /\ ~admitted => (pc'[c] = "limited" /\ ~ok'[c])
        /\ (pc[c] = "allowDec" /\ pc'[c] # "allowDec") =>
             (pc'[c] = "limited" /\ ok'[c])

\* C4: of the calls to Allow decided less than a minute after the window
\* of a visitor started (for a fresh identity: when its first call created
\* the record), the first RequestsPerMinute return true and every further
\* one returns false; a call decided once a minute or more has passed
\* since the window started returns true.
C4_FixedWindow == [][C4_Step]_vars

\* a call was denied on a visitor's exhausted bucket, and a later call on
\* the same visitor, a minute after the window started, was let through
C4_Witness ==
    \E c, d \in Callers :
        /\ pc[c] = "limited" /\ ~ok[c]
        /\ pc[d] = "limited" /\ ok[d]
        /\ v[c] = v[d]
        /\ win[v[d]] = [since |-> 0, n |-> 1]
        /\ vobjs[v[d]].tokens = RequestsPerMinute - 1

\* C5: the tokens of every visitor, in the map or evicted from it, are
\* between 0 and the capacity.
C5_TokensInRange ==
    \A a \in DOMAIN vobjs :
        vobjs[a].tokens >= 0 /\ vobjs[a].tokens <= RequestsPerMinute

\* a call was denied on an empty bucket that a sweep has evicted from the
\* map since, and the identity has a new visitor with a full bucket
C5_Witness ==
    \E c \in Callers :
        /\ pc[c] = "limited" /\ ~ok[c]
        /\ vobjs[v[c]].tokens = 0
        /\ v[c] \notin {visitors[i] : i \in DOMAIN visitors}
        /\ \E i \in DOMAIN visitors : vobjs[visitors[i]].tokens = RequestsPerMinute

(***************************************************************************)
(* Properties of the handler chain                                         *)
(***************************************************************************)
HandlerNames == {"GetTask", "CreateTask", "UpdateTask", "DeleteTask", "health"}
StageOrder == <<"logger", "requestID", "limit", "auth", "router">>
IsPrefix(p, q) == Len(p) <= Len(q) /\ SubSeq(q, 1, Len(p)) = p
\* the stages a request has been handed to, without the handler at the end
Stages(c) ==
    IF trail[c] # <<>> /\ trail[c][Len(trail[c])] \in HandlerNames
    THEN SubSeq(trail[c], 1, Len(trail[c]) - 1) ELSE trail[c]
Denied(c) == resp[c].written /\ resp[c].status \in {401, 429}
InStore(c) == pc[c] \in {"call", "create", "createInc"}

C10_Inv ==
    \A c \in Callers :
        /\ IsPrefix(Stages(c), StageOrder)
        /\ trail[c] # Stages(c) => Stages(c) = StageOrder
        /\ (pc[c] = "finish" /\ resp[c].status = 429) =>
              trail[c] = <<"logger", "requestID", "limit">>
        /\ (pc[c] = "finish" /\ resp[c].status = 401) =>
              trail[c] = <<"logger", "requestID", "limit", "auth">>
        /\ Denied(c) => ~InStore(c)

C10_Step ==
    /\ storeVars' # storeVars =>
          \E c \in Callers :
              /\ InStore(c)
              /\ pc'[c] # pc[c]
              /\ ~resp[c].written
              /\ ValidKey(req[c].key)
              /\ Len(trail[c]) = Len(StageOrder) + 1
    /\ \A c \in Callers :
          (pc[c] = "finish" /\ Denied(c)) => (pc'[c] \in {"finish", "idle"})

\* C10: a request passes the stages in the order Logger, RequestID, rate
\* limiter, APIKeyAuth, router, handler; a request answered 429 was handed
\* to no stage after the rate limiter and one answered 401 to no stage after
\* APIKeyAuth; every step that changes the Task Store is taken by a
\* goroutine inside a store method for a request that passed all four
\* stages with a valid key and has no response yet, and a denied request
\* takes no step but the return through the stages, so no denied request
\* changes the store.
C10_PipelineOrder == []C10_Inv /\ [][C10_Step]_vars

\* one request has been answered 401 and another 429 while the store holds
\* a task created by an earlier request
C10_Witness ==
    \E c, d \in Callers :
        /\ pc[c] = "finish" /\ resp[c].status = 429
        /\ pc[d] = "finish" /\ resp[d].status = 401
        /\ trail[c] = <<"logger", "requestID", "limit">>
        /\ trail[d] = <<"logger", "requestID", "limit", "auth">>
        /\ DOMAIN tasks # {}


\* the keys of the allow-list of main.go
AllowList == {"secret12345", "dev-key-001", "production-key-1"}

C11_Step ==
    \A c \in Callers :
        (pc[c] = "auth" /\ pc'[c] # "auth") =>
            IF req[c].key # "" /\ req[c].key \in AllowList
            THEN /\ pc'[c] = "router"
                 /\ trail'[c] = Append(trail[c], "router")
                 /\ resp'[c] = resp[c] /\ ~resp[c].written
            ELSE /\ pc'[c] = "finish"
                 /\ trail'[c] = trail[c]
                 /\ resp'[c].written /\ resp'[c].status = 401
                 /\ resp'[c].body = [error |-> "unauthorized"]

\* C11: when APIKeyAuth has decided on a request, the request has been
\* handed to the next stage (the router) with nothing written if its
\* X-API-KEY header is non-empty and one of the keys of the allow-list, and
\* otherwise (a missing header reads as the empty string) it has been
\* answered 401 with the error body "unauthorized" and the next stage has
\* not been invoked.
C11_APIKeyAuth == [][C11_Step]_vars

\* a request without the header was answered 401 by APIKeyAuth while one
\* with a key of the allow-list has been handed to the router
C11_Witness ==
    \E c, d \in Callers :
        /\ pc[c] = "finish" /\ req[c].key = "" /\ resp[c].status = 401
        /\ trail[c][Len(trail[c])] = "auth"
        /\ pc[d] = "router" /\ req[d].key \in AllowList


\* the counter value a request ID was formatted from
CounterOf(id) == id[2]

\* C12: the request IDs generated so far, in the order of generation, are
\* formatted from strictly increasing values of the counter, the last of
\* them the counter's current value, so no two requests have been given
\* the same ID; and the IDs of the requests being served that have passed
\* RequestID are pairwise different.
C12_RequestIDsUnique ==
    /\ \A i, j \in 1..Len(issued) :
          i < j => (issued[i] # issued[j] /\ CounterOf(issued[i]) < CounterOf(issued[j]))
    /\ issued # <<>> => CounterOf(issued[Len(issued)]) = requestIDCounter
    /\ \A c, d \in Callers :
          (c # d /\ ctx[c] # Nil /\ ctx[d] # Nil) => ctx[c] # ctx[d]

\* two requests were in RequestID at the same time, one waiting for
\* requestIDMu while the other held it, and both have their IDs now
C12_Witness ==
    \E c, d \in Callers :
        /\ c # d
        /\ ctx[c] = <<"req-", 1>> /\ ctx[d] = <<"req-", 2>>
        /\ pc[c] = "limit" /\ pc[d] = "limit"
        /\ issued = <<ctx[c], ctx[d]>>


\* the elements of a sequence
Range(seq) == {seq[i] : i \in 1..Len(seq)}
Statuses == {200, 201, 400, 401, 404, 429}

\* C13: every response written, whatever its status (200, 201, 400, 401,
\* 404 or 429), went out with an X-Request-ID header that is set and holds
\* one of the IDs RequestID generated; while the request is still being
\* served it is the ID RequestID put in that request's context.
C13_ResponseHasRequestID ==
    \A c \in Callers :
        resp[c].written =>
            /\ resp[c].status \in Statuses
            /\ resp[c].xRequestID # Nil
            /\ resp[c].xRequestID \in Range(issued)
            /\ pc[c] = "finish" => resp[c].xRequestID = ctx[c]

\* a request denied by the rate limiter and one denied by APIKeyAuth have
\* been answered, each with its own ID in the header
C13_Witness ==
    \E c, d \in Callers :
        /\ pc[c] = "finish" /\ resp[c].status = 429 /\ resp[c].xRequestID = ctx[c]
        /\ pc[d] = "finish" /\ resp[d].status = 401 /\ resp[d].xRequestID = ctx[d]
        /\ ctx[c] # Nil /\ ctx[d] # Nil /\ ctx[c] # ctx[d]

\* answered by a handler, by the router and by a handler's validation
C13_WitnessHandlers ==
    \E c, d \in Callers :
        /\ pc[c] = "finish" /\ resp[c].status \in {400, 404} /\ resp[c].xRequestID = ctx[c]
        /\ resp[d].written /\ resp[d].status = 201 /\ resp[d].xRequestID = <<"req-", 1>>

\* C14: the line Logger has printed for a request holds the request ID that
\* went out in the X-Request-ID header of the response to that request.
C14_LoggerHasRequestID ==
    \A c \in Callers :
        (logged[c].printed /\ resp[c].written) => logged[c].requestID = resp[c].xRequestID

\* C15: a GET /health request that the rate limiter admitted is answered
\* 200 with the body {status: "healthy"}, with or without a valid key.
C15_HealthAlways200 ==
    \A c \in Callers :
        (pc[c] = "finish" /\ req[c].method = "GET" /\ req[c].path = "/health"
            /\ resp[c].status # 429)
        => (resp[c].status = 200 /\ resp[c].body = [status |-> "healthy"])


\* the request of c has been answered by CreateTask
AnsweredCreate(c) ==
    /\ pc[c] = "finish"
    /\ trail[c] # <<>> /\ trail[c][Len(trail[c])] = "CreateTask"
    /\ req[c].body.ok

C16_Inv ==
    \A c \in Callers :
        AnsweredCreate(c) =>
            LET t == TrimSpace(req[c].body.title)
            IN  IF t = <<>> \/ Len(t) > 200
                THEN resp[c].status = 400
                ELSE /\ resp[c].status = 201
                     /\ resp[c].body.Title = t
                     /\ ~resp[c].body.Done
                     /\ resp[c].body.ID \in DOMAIN tasks
                     /\ objs[tasks[resp[c].body.ID]] = resp[c].body

C16_Step ==
    \A c \in Callers :
        (pc[c] = "CreateTask" /\ pc'[c] = "finish") =>
            /\ resp'[c].status = 400
            /\ storeVars' = storeVars

\* C16: POST /v1/tasks with a decodable body is answered 400 if the title
\* is empty after trimming or the trimmed title has more than 200
\* characters, and otherwise (200 characters or fewer included) 201 with
\* the new record: the trimmed title, done=false, as stored; the step that
\* answers 400 leaves the store and nextID as they were.
C16_CreateTaskValidation == []C16_Inv /\ [][C16_Step]_vars


\* the step is a sweep of cleanupVisitors
IsSweep == ticker.ready /\ ~ticker'.ready
Fresh == [tokens |-> RequestsPerMinute, sinceSeen |-> 0, sinceRefill |-> 0]

C17_Step ==
    /\ IsSweep =>
          /\ DOMAIN visitors' =
                {ip \in DOMAIN visitors : vobjs[visitors[ip]].sinceSeen <= Cleanup}
          /\ \A ip \in DOMAIN visitors' :
                /\ visitors'[ip] = visitors[ip]
                /\ vobjs'[visitors'[ip]] = vobjs[visitors[ip]]
    /\ \A c \in Callers :
          (pc[c] = "limit" /\ pc'[c] = "allow") =>
              \E ip \in DOMAIN visitors' :
                  /\ visitors'[ip] = v'[c]
                  /\ ip \notin DOMAIN visitors =>
                        /\ vobjs'[v'[c]] = Fresh
                        /\ v'[c] \notin Referenced(visitors, v)
                  /\ ip \in DOMAIN visitors =>
                        (visitors' = visitors /\ vobjs' = vobjs)
    /\ \A c \in Callers :
          (pc[c] = "allow" /\ pc'[c] # "allow" /\ vobjs[v[c]] = Fresh) =>
              pc'[c] = "allowDec"

\* C17: a sweep removes from the map exactly the visitors last seen more
\* than the cleanup interval ago and leaves every other visitor in it with
\* the same record: tokens, window start and last-seen as they were; the
\* Allow of an identity that is not in the map (never seen, or evicted)
\* gets a new record with a full bucket, and a call decided on a full fresh
\* bucket is admitted.
C17_Eviction == [][C17_Step]_vars

\* ip1 was evicted by a sweep that kept ip2 with its used bucket, and the
\* next Allow of ip1 has just been given a fresh record
C17_Witness ==
    /\ "ip1" \in evicted /\ "ip2" \notin evicted
    /\ pc[1] = "allow"
    /\ "ip1" \in DOMAIN visitors /\ v[1] = visitors["ip1"]
    /\ vobjs[v[1]] = Fresh
    /\ "ip2" \in DOMAIN visitors
    /\ vobjs[visitors["ip2"]].tokens < RequestsPerMinute
    /\ vobjs[visitors["ip2"]].sinceSeen > 0


\* the visitor records in the map
InMap == {visitors[i] : i \in DOMAIN visitors}

C18_Step ==
    \A c \in Callers :
        (pc[c] \in {"allow", "allowDec"} /\ pc'[c] # pc[c]) => v[c] \in InMap

\* C18: every step of Allow that refills, stamps or decrements a visitor
\* record does so on a record that is in the visitor map at that moment:
\* no sweep has removed it since getVisitor returned it.
C18_AllowAtomicWithSweep == [][C18_Step]_vars

Min(a, b) == IF a < b THEN a ELSE b
\* the goroutines that have been admitted on record a and not yet taken
\* the token
Deciding(a) == {c \in Callers : pc[c] = "allowDec" /\ v[c] = a}

\* C19: the tokens of a visitor record are the capacity less the calls
\* admitted in its current window, which are the calls decided in it up to
\* the capacity: no token is lost or spent twice; and while no sweep has
\* evicted the identity, the goroutines calling Allow for it all hold one
\* and the same record, the one in the map.
C19_TokensConserved ==
    /\ \A a \in DOMAIN vobjs :
          vobjs[a].tokens =
              RequestsPerMinute - Min(win[a].n, RequestsPerMinute)
                  + Cardinality(Deciding(a))
    /\ evicted = {} =>
          \A c \in Callers : v[c] # 0 => v[c] \in InMap
    /\ evicted = {} => Cardinality(DOMAIN vobjs) <= 1

\* with one token left two goroutines called Allow at once: one was
\* admitted, the other denied, and the bucket is empty
C19_Witness ==
    \E c, d \in Callers :
        /\ evicted = {}
        /\ pc[c] = "limited" /\ ok[c]
        /\ pc[d] = "limited" /\ ~ok[d]
        /\ v[c] = v[d]
        /\ vobjs[v[c]].tokens = 0 /\ vobjs[v[c]].sinceRefill = 0
        /\ win[v[c]].n = RequestsPerMinute + 1

\* the step lets the clock advance
IsTick == ticker' # ticker /\ ~IsSweep

C20_Step ==
    \A a \in DOMAIN vobjs \cap DOMAIN vobjs' :
        IF \E c \in Callers : pc[c] = "allow" /\ pc'[c] # "allow" /\ v[c] = a
        THEN \A c \in Callers :
                (pc[c] = "allow" /\ pc'[c] # "allow" /\ v[c] = a) =>
                    IF vobjs[a].sinceRefill >= Minute
                    THEN /\ vobjs'[a].sinceRefill = 0
                         /\ vobjs'[a].tokens = RequestsPerMinute
                         /\ pc'[c] = "allowDec"
                    ELSE /\ vobjs'[a].sinceRefill = vobjs[a].sinceRefill
                         /\ vobjs'[a].tokens = vobjs[a].tokens
        ELSE IF IsTick
             THEN vobjs'[a].sinceRefill >= vobjs[a].sinceRefill
             ELSE vobjs'[a].sinceRefill = vobjs[a].sinceRefill

====
